---- MODULE Spec2Model ----
(***************************************************************************)
(* Model of ecoScraping.py: the SEC filing acquisition loop                *)
(* (acquire_filings), the ratio engine (calculate_ratios), the analysis    *)
(* run (analyze_financial_data) and the orchestration in main.             *)
(*                                                                         *)
(* Numbers are small naturals.  A cell of a numeric column is a record     *)
(* [k, v]: k = "num" for a number v, k = "nan" for NaN.  A quotient is     *)
(* kept exact, as a reduced fraction [k |-> "num", p, q] (q > 0), so that  *)
(* a swapped or crossed division is a different value.                     *)
(***************************************************************************)
EXTENDS Integers, Sequences, FiniteSets, TLC

VARIABLES
    df,          \* calculate_ratios: the input DataFrame, a sequence of rows
    ratios_df,   \* calculate_ratios: the returned DataFrame
    rpc,         \* calculate_ratios: "input" before the call, "done" after
    identifiers, \* acquire_filings: the list of tickers or CIKs
    user_agent,  \* acquire_filings: the user_agent argument
    dl,          \* acquire_filings: the Downloader, "none" until initialised
    idx,         \* acquire_filings: list elements the for loop has consumed
    successful_downloads,
    failed_downloads,
    total_files_downloaded,
    attempts,    \* acquire_filings: the dl.get calls made, oldest first
    acq_ret,     \* acquire_filings: the returned value, "none" before
    apc,         \* acquire_filings: "idle", "start", "loop", "returned", "raised"
    input_csv,   \* the file input_financials.csv
    output_csv,  \* the file output_ratios.csv
    runs,        \* calls of analyze_financial_data made so far
    ana_ret,     \* analyze_financial_data: the last returned value, "none" before
    ana_log,     \* analyze_financial_data: the stages the last call went through
    ana_pc,      \* "ready": the input file awaits a call; "returned"; "idle"
    args,        \* main: the parsed command line
    idfile,      \* the file tickers.txt
    acquisition_success,
    analysis_success,
    exit_code,   \* main: the code passed to exit, -1 while running
    pc           \* main: "idle", "acquisition", "acquiring", "analysis",
                 \* "exit", "exited"

ratio_vars == <<df, ratios_df, rpc>>
acq_vars == <<identifiers, user_agent, dl, idx, successful_downloads,
              failed_downloads, total_files_downloaded, attempts, acq_ret, apc>>
ana_vars == <<input_csv, output_csv, runs, ana_ret, ana_log, ana_pc>>
main_vars == <<args, idfile, acquisition_success, analysis_success, exit_code, pc>>
vars == <<ratio_vars, acq_vars, ana_vars, main_vars>>

----------------------------------------------------------------------------
(* Bounds of the model *)

MaxVal == 2      \* numeric cells range over 0..MaxVal and NaN
MaxRows == 2     \* longest multi-row DataFrame handed to calculate_ratios
MaxIds == 3      \* longest identifier list handed to acquire_filings
MaxRuns == 2     \* calls of analyze_financial_data on one output file

----------------------------------------------------------------------------
(* Configuration *)

NUM_RECENT_FILINGS == 3
USER_AGENT == "Freddy Charles freddycharles04@gmail.com"

REQUIRED_COLUMNS ==
    {"CompanyName", "Ticker", "Year",
     "TotalCurrentAssets", "TotalCurrentLiabilities",
     "TotalDebt", "TotalEquity", "Revenue", "NetIncome"}

required_numeric_cols ==
    {"TotalCurrentAssets", "TotalCurrentLiabilities", "TotalDebt",
     "TotalEquity", "Revenue", "NetIncome"}

----------------------------------------------------------------------------
(* Values *)

NaN == [k |-> "nan", v |-> 0]
Num(n) == [k |-> "num", v |-> n]
Cells == {NaN} \cup {Num(n) : n \in 0..MaxVal}

\* pd.isna on a cell
isna(x) == x.k = "nan"

\* np.nan as the value of a ratio
RatioNaN == [k |-> "nan", p |-> 0, q |-> 1]
\* what a division by zero leaves behind: inf on a numpy float64, an uncaught
\* ZeroDivisionError on a Python number (the except clauses of lines 202, 216
\* and 229 catch TypeError and KeyError only)
DivByZero == [k |-> "divzero", p |-> 0, q |-> 1]

RECURSIVE GCD(_, _)
GCD(a, b) == IF b = 0 THEN a ELSE GCD(b, a % b)

\* a / b on two numeric cells: the exact quotient, reduced
TrueDiv(a, b) ==
    IF b.v = 0
    THEN DivByZero
    ELSE LET g == GCD(a.v, b.v)
         IN  [k |-> "num", p |-> a.v \div g, q |-> b.v \div g]

\* row.get(col, default)
Get(row, col, default) == IF col \in DOMAIN row THEN row[col] ELSE default

----------------------------------------------------------------------------
(* Files, and the state of the parts that are not running *)

NoFile == [exists |-> FALSE, fault |-> "none", columns |-> {}, lines |-> <<>>]
CsvFile(cols, lines) ==
    [exists |-> TRUE, fault |-> "none", columns |-> cols, lines |-> lines]
BadFile(fault) ==
    [exists |-> TRUE, fault |-> fault, columns |-> {}, lines |-> <<>>]

NoOutput == [exists |-> FALSE, headers |-> 0, rows |-> <<>>]

\* the analysis state when analyze_financial_data is not in use
AnaIdle ==
    /\ input_csv = NoFile
    /\ output_csv = NoOutput
    /\ runs = 0
    /\ ana_ret = "none"
    /\ ana_log = <<>>
    /\ ana_pc = "idle"

NoIdFile == [state |-> "missing", lines |-> <<>>]

\* the state of main when main is not running
MainIdle ==
    /\ args = [skip_acquisition |-> FALSE, skip_analysis |-> FALSE]
    /\ idfile = NoIdFile
    /\ acquisition_success = TRUE
    /\ analysis_success = TRUE
    /\ exit_code = -1
    /\ pc = "idle"

\* the acquisition state when acquire_filings is not running
AcqIdle ==
    /\ identifiers = <<>>
    /\ user_agent = USER_AGENT
    /\ dl = "none"
    /\ idx = 0
    /\ successful_downloads = 0
    /\ failed_downloads = 0
    /\ total_files_downloaded = 0
    /\ attempts = <<>>
    /\ acq_ret = "none"
    /\ apc = "idle"

----------------------------------------------------------------------------
(* calculate_ratios *)

\* a faulty variant of missing_data: the flag is never set
missing_data_never(row) == FALSE

\* lines 185-191: the row-wide flag, set when any numeric column is NaN
\* (row.get of an absent column is None, which pd.isna also reports)
missing_data(row) ==
    \E col \in required_numeric_cols : isna(Get(row, col, NaN))

\* a faulty variant of CurrentRatio: the zero test is on the numerator
CurrentRatio_zero_on_numerator(row) ==
    IF missing_data(row)
       \/ isna(row["TotalCurrentAssets"]) \/ isna(row["TotalCurrentLiabilities"])
    THEN RatioNaN
    ELSE IF row["TotalCurrentAssets"] = Num(0)
         THEN RatioNaN
         ELSE TrueDiv(row["TotalCurrentAssets"], row["TotalCurrentLiabilities"])

\* lines 193-205
CurrentRatio(row) ==
    IF missing_data(row)
       \/ isna(row["TotalCurrentAssets"]) \/ isna(row["TotalCurrentLiabilities"])
    THEN RatioNaN
    ELSE IF row["TotalCurrentLiabilities"] = Num(0)
         THEN RatioNaN
         ELSE TrueDiv(row["TotalCurrentAssets"], row["TotalCurrentLiabilities"])

\* a faulty variant of DebtToEquityRatio: numerator and denominator swapped
DebtToEquityRatio_swapped(row) ==
    IF missing_data(row) \/ isna(row["TotalDebt"]) \/ isna(row["TotalEquity"])
    THEN RatioNaN
    ELSE IF row["TotalEquity"] = Num(0)
         THEN RatioNaN
         ELSE TrueDiv(row["TotalEquity"], row["TotalDebt"])

\* lines 207-218
DebtToEquityRatio(row) ==
    IF missing_data(row) \/ isna(row["TotalDebt"]) \/ isna(row["TotalEquity"])
    THEN RatioNaN
    ELSE IF row["TotalEquity"] = Num(0)
         THEN RatioNaN
         ELSE TrueDiv(row["TotalDebt"], row["TotalEquity"])

\* a faulty variant of NetProfitMargin: divides by TotalEquity, the denominator of
\* another ratio
NetProfitMargin_crossed(row) ==
    IF missing_data(row) \/ isna(row["NetIncome"]) \/ isna(row["Revenue"])
    THEN RatioNaN
    ELSE IF row["Revenue"] = Num(0)
         THEN RatioNaN
         ELSE IF row["TotalEquity"] = Num(0)
              THEN RatioNaN
              ELSE TrueDiv(row["NetIncome"], row["TotalEquity"])

\* lines 220-231
NetProfitMargin(row) ==
    IF missing_data(row) \/ isna(row["NetIncome"]) \/ isna(row["Revenue"])
    THEN RatioNaN
    ELSE IF row["Revenue"] = Num(0)
         THEN RatioNaN
         ELSE TrueDiv(row["NetIncome"], row["Revenue"])

\* lines 180-183 and 233: one iteration of the loop over df.iterrows()
row_result(row) ==
    [CompanyName       |-> Get(row, "CompanyName", "N/A"),
     Ticker            |-> Get(row, "Ticker", "N/A"),
     Year              |-> Get(row, "Year", 0),
     CurrentRatio      |-> CurrentRatio(row),
     DebtToEquityRatio |-> DebtToEquityRatio(row),
     NetProfitMargin   |-> NetProfitMargin(row)]

\* a faulty variant of calculate_ratios: missing_data is initialised once, before
\* the loop, so a NaN in one row also blanks the rows after it
RECURSIVE results_carry(_, _, _)
results_carry(frame, i, carried) ==
    IF i > Len(frame) THEN <<>>
    ELSE LET miss == carried \/ missing_data(frame[i])
             r == row_result(frame[i])
         IN  <<IF miss
               THEN [r EXCEPT !.CurrentRatio = RatioNaN,
                              !.DebtToEquityRatio = RatioNaN,
                              !.NetProfitMargin = RatioNaN]
               ELSE r>> \o results_carry(frame, i + 1, miss)

calculate_ratios_carry(frame) == results_carry(frame, 1, FALSE)

\* lines 171-235: results is appended to once per row, in iteration order
RECURSIVE calculate_ratios(_)
calculate_ratios(frame) ==
    IF frame = <<>> THEN <<>>
    ELSE <<row_result(Head(frame))>> \o calculate_ratios(Tail(frame))

----------------------------------------------------------------------------
(* Inputs of calculate_ratios *)

Companies ==
    {[CompanyName |-> "Apple Inc.", Ticker |-> "AAPL", Year |-> 2023],
     [CompanyName |-> "Microsoft Corp", Ticker |-> "MSFT", Year |-> 2022]}

MkRow(id, num) ==
    [CompanyName |-> id.CompanyName, Ticker |-> id.Ticker, Year |-> id.Year,
     TotalCurrentAssets |-> num["TotalCurrentAssets"],
     TotalCurrentLiabilities |-> num["TotalCurrentLiabilities"],
     TotalDebt |-> num["TotalDebt"], TotalEquity |-> num["TotalEquity"],
     Revenue |-> num["Revenue"], NetIncome |-> num["NetIncome"]]

\* a complete row, each ratio with numerator 1 and denominator MaxVal
BaseNumerics ==
    [c \in required_numeric_cols |->
        IF c \in {"TotalCurrentLiabilities", "TotalEquity", "Revenue"}
        THEN Num(MaxVal) ELSE Num(1)]

\* the complete row with at most one cell changed
FaultNumerics ==
    {BaseNumerics} \cup
    {[BaseNumerics EXCEPT ![c] = x] : c \in required_numeric_cols, x \in Cells}

AllRows == {MkRow(id, num) : id \in Companies, num \in [required_numeric_cols -> Cells]}
FaultRows == {MkRow(id, num) : id \in Companies, num \in FaultNumerics}

\* the sequences over S of length at most n
SeqsUpTo(S, n) == UNION {[1..k -> S] : k \in 0..n}

\* single rows over every combination of cells, and multi-row frames of
\* rows with at most one fault
InputFrames(n) == {<<r>> : r \in AllRows} \cup SeqsUpTo(FaultRows, n)

----------------------------------------------------------------------------
(* acquire_filings *)

\* list elements: a ticker, a ticker with surrounding blanks, a blank line
\* and an empty string
IdentifierPool == {"AAPL", " MSFT", " ", ""}

\* str.strip on the elements of IdentifierPool
strip(s) == CASE s = " MSFT" -> "MSFT" [] s = " " -> "" [] OTHER -> s

\* what one dl.get call does: it returns a count of filings, or raises
Count(n) == [kind |-> "count", n |-> n]
Raises(e) == [kind |-> e, n |-> 0]
FailureKinds ==
    {"ConnectionError",    \* a requests.exceptions.RequestException
     "HTTPError429",       \* requests.exceptions.HTTPError, status 429
     "ValueErrorInvalid",  \* ValueError("Invalid ticker ...")
     "ValueError",         \* any other ValueError
     "Exception",          \* any other exception
     "Exception429"}       \* any other exception with "429" in its text
Outcomes ==
    {Count(n) : n \in 0..NUM_RECENT_FILINGS} \cup {Raises(e) : e \in FailureKinds}

\* a faulty variant of ExceptClause: the catch-all clause of line 147 is missing
ExceptClause_no_catch_all(o) ==
    CASE o.kind \in {"ConnectionError", "HTTPError429"} -> "RequestException"
      [] o.kind \in {"ValueErrorInvalid", "ValueError"} -> "ValueError"
      [] OTHER -> "none"

\* lines 137, 140, 147: the except clause that handles a raised exception,
\* the first whose class it is an instance of ("none": it propagates)
ExceptClause(o) ==
    CASE o.kind \in {"ConnectionError", "HTTPError429"} -> "RequestException"
      [] o.kind \in {"ValueErrorInvalid", "ValueError"} -> "ValueError"
      [] o.kind \in {"Exception", "Exception429"} -> "Exception"
      [] OTHER -> "none"

\* a faulty variant of next_idx: an attempt that hit rate limiting is made again
next_idx_retry_429(i, o) ==
    IF o.kind \in {"HTTPError429", "Exception429"} THEN i ELSE i + 1

\* line 100: the for loop moves to the next list element after every
\* iteration, whatever dl.get did
next_idx(i, o) == i + 1

\* line 167: len([id for id in identifiers if id]), the non-empty elements
\* of the list as passed in (not stripped)
TruthyCount(ids) == Cardinality({i \in 1..Len(ids) : ids[i] # ""})

\* lines 76-80: the user agent check
AcqBadUserAgent ==
    /\ apc = "start"
    /\ user_agent = "" \/ user_agent = "Your Name Your Email"
    /\ acq_ret' = FALSE
    /\ apc' = "returned"
    /\ UNCHANGED <<ratio_vars, ana_vars, main_vars, identifiers, user_agent, dl, idx,
                   successful_downloads, failed_downloads,
                   total_files_downloaded, attempts>>

\* lines 82-98: makedirs and the Downloader constructor succeed or raise
AcqInitDownloader ==
    /\ apc = "start"
    /\ ~(user_agent = "" \/ user_agent = "Your Name Your Email")
    /\ \E init_ok \in BOOLEAN :
          IF init_ok
          THEN /\ dl' = "ready"
               /\ apc' = "loop"
               /\ acq_ret' = acq_ret
          ELSE /\ dl' = dl
               /\ apc' = "returned"
               /\ acq_ret' = FALSE
    /\ successful_downloads' = 0
    /\ failed_downloads' = 0
    /\ total_files_downloaded' = 0
    /\ UNCHANGED <<ratio_vars, ana_vars, main_vars, identifiers, user_agent, idx, attempts>>

\* lines 100-155: one iteration of the loop over identifiers
AcqIterate ==
    /\ apc = "loop"
    /\ idx < Len(identifiers)
    /\ LET identifier == strip(identifiers[idx + 1])
       IN  IF identifier = ""
           THEN \* lines 102-103: continue
                /\ idx' = idx + 1
                /\ UNCHANGED <<successful_downloads, failed_downloads,
                               total_files_downloaded, attempts, apc>>
           ELSE \E o \in Outcomes :
                /\ attempts' = Append(attempts,
                                      [pos |-> idx + 1, identifier |-> identifier,
                                       outcome |-> o])
                /\ IF o.kind = "count"
                   THEN /\ successful_downloads' =
                              IF o.n > 0 THEN successful_downloads + 1
                                         ELSE successful_downloads
                        /\ total_files_downloaded' =
                              IF o.n > 0 THEN total_files_downloaded + o.n
                                         ELSE total_files_downloaded
                        /\ UNCHANGED <<failed_downloads, apc>>
                        /\ idx' = next_idx(idx, o)
                   ELSE IF ExceptClause(o) = "none"
                        THEN \* no clause matches: the exception leaves the loop
                             /\ apc' = "raised"
                             /\ UNCHANGED <<successful_downloads, failed_downloads,
                                            total_files_downloaded, idx>>
                        ELSE /\ failed_downloads' = failed_downloads + 1
                             /\ UNCHANGED <<successful_downloads,
                                            total_files_downloaded, apc>>
                             /\ idx' = next_idx(idx, o)
    /\ UNCHANGED <<ratio_vars, ana_vars, main_vars, identifiers, user_agent, dl, acq_ret>>

\* lines 157-167: the loop is over, the summary is logged and printed
AcqReturn ==
    /\ apc = "loop"
    /\ idx = Len(identifiers)
    /\ acq_ret' = (failed_downloads < TruthyCount(identifiers))
    /\ apc' = "returned"
    /\ UNCHANGED <<ratio_vars, ana_vars, main_vars, identifiers, user_agent, dl, idx,
                   successful_downloads, failed_downloads,
                   total_files_downloaded, attempts>>

UserAgents == {USER_AGENT, "Your Name Your Email", ""}

InitAcquire ==
    /\ df = <<>> /\ ratios_df = <<>> /\ rpc = "idle"
    /\ AnaIdle
    /\ MainIdle
    /\ identifiers \in SeqsUpTo(IdentifierPool, MaxIds)
    /\ user_agent \in UserAgents
    /\ dl = "none"
    /\ idx = 0
    /\ successful_downloads = 0
    /\ failed_downloads = 0
    /\ total_files_downloaded = 0
    /\ attempts = <<>>
    /\ acq_ret = "none"
    /\ apc = "start"

NextAcquire == AcqBadUserAgent \/ AcqInitDownloader \/ AcqIterate \/ AcqReturn

SpecAcquire == InitAcquire /\ [][NextAcquire]_vars

----------------------------------------------------------------------------
(* analyze_financial_data *)

\* a field of a numeric column as it stands in the CSV text: a run of digits
\* (v is the number), nothing, a dash, or some other text
Digits(n) == [k |-> "digits", v |-> n]
Blank == [k |-> "blank", v |-> 0]
Dash == [k |-> "dash", v |-> 0]
Text == [k |-> "text", v |-> 0]

\* the cells of an object column: the strings "<n>", "-" and e.g. "n/a"
StrNum(n) == [k |-> "numstr", v |-> n]
StrDash == [k |-> "strdash", v |-> 0]
StrEmpty == [k |-> "strempty", v |-> 0]
StrText == [k |-> "strtext", v |-> 0]

\* pd.read_csv type inference: a column whose fields are all numbers or
\* blank is numeric, any other column holds strings; a blank field is NaN
\* in both
ColumnParsesNumeric(lines, c) ==
    \A i \in 1..Len(lines) : lines[i][c].k \in {"digits", "blank"}

ParseField(f, numeric) ==
    CASE f.k = "blank" -> NaN
      [] f.k = "digits" -> IF numeric THEN Num(f.v) ELSE StrNum(f.v)
      [] f.k = "dash" -> StrDash
      [] OTHER -> StrText

\* line 244: the DataFrame of a readable file
read_csv(file) ==
    [i \in 1..Len(file.lines) |->
        [c \in file.columns |->
            IF c \in required_numeric_cols
            THEN ParseField(file.lines[i][c], ColumnParsesNumeric(file.lines, c))
            ELSE file.lines[i][c]]]

\* a faulty variant of missing_cols: the column check finds nothing missing
missing_cols_unchecked(columns) == {}

\* line 273
missing_cols(columns) == {c \in REQUIRED_COLUMNS : c \notin columns}

\* line 290: pd.api.types.is_numeric_dtype(df[col])
is_numeric_dtype(frame, c) ==
    \A i \in 1..Len(frame) : frame[i][c].k \in {"num", "nan"}

\* a faulty variant of to_numeric: errors='ignore', what cannot be parsed is
\* handed back as it is
to_numeric_ignore(x) ==
    CASE x.k = "num" -> x
      [] x.k = "numstr" -> Num(x.v)
      [] OTHER -> x

\* pd.to_numeric(x, errors='coerce') on one cell
to_numeric(x) ==
    CASE x.k = "num" -> x
      [] x.k = "numstr" -> Num(x.v)
      [] OTHER -> NaN

\* line 301: replace({'-': np.nan, '': np.nan}) on one cell
replace_markers(x) == IF x.k \in {"strdash", "strempty"} THEN NaN ELSE x

\* lines 290-302 for one cell x of column c: to_numeric if the column is not
\* numeric yet, then the markers are replaced and to_numeric is applied again
normalize_cell(frame, c, x) ==
    LET coerced == IF is_numeric_dtype(frame, c) THEN x ELSE to_numeric(x)
    IN  to_numeric(replace_markers(coerced))

\* lines 280-302: the loop over numeric_cols, skipping absent columns; each
\* column is rewritten from its own cells only
normalize(frame) ==
    [i \in 1..Len(frame) |->
        [c \in DOMAIN frame[i] |->
            IF c \in required_numeric_cols
            THEN normalize_cell(frame, c, frame[i][c])
            ELSE frame[i][c]]]

\* float_format='%.4f': a number in ten-thousandths, rounded; NaN is written
\* as an empty field
Format4(r) ==
    IF r.k = "num"
    THEN [k |-> "fix4", v |-> (2 * 10000 * r.p + r.q) \div (2 * r.q)]
    ELSE [k |-> "empty", v |-> 0]

\* one data line of the output file; written_by is the call that wrote it
OutputLine(r, run) ==
    [CompanyName |-> r.CompanyName, Ticker |-> r.Ticker, Year |-> r.Year,
     CurrentRatio |-> Format4(r.CurrentRatio),
     DebtToEquityRatio |-> Format4(r.DebtToEquityRatio),
     NetProfitMargin |-> Format4(r.NetProfitMargin),
     written_by |-> run]

\* a faulty variant of to_csv: the file is opened in append mode
to_csv_append(old, ratios, run) ==
    [exists |-> TRUE, headers |-> old.headers + 1,
     rows |-> old.rows \o [i \in 1..Len(ratios) |-> OutputLine(ratios[i], run)]]

\* line 318: DataFrame.to_csv opens the file for writing, which empties it,
\* and writes the header line and one line per row
to_csv(old, ratios, run) ==
    [exists |-> TRUE, headers |-> 1,
     rows |-> [i \in 1..Len(ratios) |-> OutputLine(ratios[i], run)]]

\* how the write of lines 315-318 can end: done, refused before the file is
\* opened (the file is untouched), or broken off after the file was emptied
WriteOutcomes == {"ok", "refused", "broken"}

\* lines 238-331: the whole call, as the returned value, the output file it
\* leaves, the stages it went through and the frames of line 311
analyze_financial_data(file, old, write, run) ==
    LET stop(ret, log) ==
            [ret |-> ret, out |-> old, log |-> log, df |-> <<>>, ratios |-> <<>>]
    IN  IF ~file.exists THEN stop(FALSE, <<"read_csv">>)
        ELSE IF file.fault # "none" THEN stop(FALSE, <<"read_csv">>)
        ELSE IF file.lines = <<>> THEN stop(TRUE, <<"read_csv", "empty">>)
        ELSE IF missing_cols(file.columns) # {}
             THEN stop(FALSE, <<"read_csv", "missing_cols">>)
        ELSE LET clean == normalize(read_csv(file))
                 ratios == calculate_ratios(clean)
                 log == <<"read_csv", "missing_cols", "normalize",
                          "calculate_ratios">>
             IN  CASE write = "ok" ->
                        [ret |-> TRUE, out |-> to_csv(old, ratios, run),
                         log |-> Append(log, "to_csv"),
                         df |-> clean, ratios |-> ratios]
                   [] write = "refused" ->
                        [ret |-> FALSE, out |-> old,
                         log |-> Append(log, "to_csv refused"),
                         df |-> clean, ratios |-> ratios]
                   [] OTHER ->
                        [ret |-> FALSE,
                         out |-> [exists |-> TRUE, headers |-> 0, rows |-> <<>>],
                         log |-> Append(log, "to_csv broken"),
                         df |-> clean, ratios |-> ratios]

\* input files
CsvLine(id, num) ==
    [CompanyName |-> id.CompanyName, Ticker |-> id.Ticker, Year |-> id.Year,
     TotalCurrentAssets |-> num["TotalCurrentAssets"],
     TotalCurrentLiabilities |-> num["TotalCurrentLiabilities"],
     TotalDebt |-> num["TotalDebt"], TotalEquity |-> num["TotalEquity"],
     Revenue |-> num["Revenue"], NetIncome |-> num["NetIncome"]]

BaseFields == [c \in required_numeric_cols |-> Digits(BaseNumerics[c].v)]

Apple == CHOOSE id \in Companies : id.Ticker = "AAPL"
Microsoft == CHOOSE id \in Companies : id.Ticker = "MSFT"

\* a complete line, a line with a dash, a text and a blank field, and a
\* complete line with a zero denominator
CsvLines ==
    {CsvLine(Apple, BaseFields),
     CsvLine(Microsoft, [BaseFields EXCEPT !["TotalDebt"] = Dash,
                                           !["NetIncome"] = Text,
                                           !["TotalEquity"] = Blank]),
     CsvLine(Apple, [BaseFields EXCEPT !["Revenue"] = Digits(0),
                                       !["TotalCurrentAssets"] = Digits(MaxVal),
                                       !["TotalCurrentLiabilities"] = Digits(1)])}

Restrict(line, cols) == [c \in cols |-> line[c]]

\* files with all required columns, and files that lack one of them or have
\* an extra one, with one line or with the header only
InputFiles ==
    {NoFile} \cup {BadFile(f) : f \in {"EmptyDataError", "ParserError", "OSError"}}
    \cup {CsvFile(REQUIRED_COLUMNS, lines) : lines \in SeqsUpTo(CsvLines, MaxRows)}
    \cup {CsvFile(REQUIRED_COLUMNS \ {c},
                  <<Restrict(CsvLine(Apple, BaseFields), REQUIRED_COLUMNS \ {c})>>)
            : c \in REQUIRED_COLUMNS}
    \cup {CsvFile(REQUIRED_COLUMNS \ {c}, <<>>) : c \in {"Ticker", "Revenue"}}

\* lines 238-331 as one step on the files
Analyze ==
    /\ ana_pc = "ready"
    /\ \E write \in WriteOutcomes :
          LET res == analyze_financial_data(input_csv, output_csv, write, runs + 1)
          IN  /\ ana_ret' = res.ret
              /\ output_csv' = res.out
              /\ ana_log' = res.log
              /\ df' = res.df
              /\ ratios_df' = res.ratios
    /\ runs' = runs + 1
    /\ ana_pc' = "returned"
    /\ UNCHANGED <<rpc, acq_vars, main_vars, input_csv>>

\* between two calls: the locals of the call that returned are gone, the
\* output file stays, and the input file is replaced
ReplaceInput ==
    /\ ana_pc = "returned"
    /\ runs < MaxRuns
    /\ input_csv' \in InputFiles
    /\ ana_pc' = "ready"
    /\ df' = <<>> /\ ratios_df' = <<>>
    /\ ana_ret' = "none" /\ ana_log' = <<>>
    /\ UNCHANGED <<rpc, acq_vars, main_vars, output_csv, runs>>

InitAnalyze ==
    /\ df = <<>> /\ ratios_df = <<>> /\ rpc = "idle"
    /\ AcqIdle
    /\ MainIdle
    /\ input_csv \in InputFiles
    /\ output_csv = NoOutput
    /\ runs = 0
    /\ ana_ret = "none"
    /\ ana_log = <<>>
    /\ ana_pc = "ready"

NextAnalyze == Analyze \/ ReplaceInput

SpecAnalyze == InitAnalyze /\ [][NextAnalyze]_vars

----------------------------------------------------------------------------
(* The ratio engine applied to a DataFrame *)

InitRatios ==
    /\ df \in InputFrames(MaxRows)
    /\ ratios_df = <<>>
    /\ rpc = "input"
    /\ AcqIdle
    /\ AnaIdle
    /\ MainIdle

CallCalculateRatios ==
    /\ rpc = "input"
    /\ ratios_df' = calculate_ratios(df)
    /\ rpc' = "done"
    /\ UNCHANGED <<df, acq_vars, ana_vars, main_vars>>

NextRatios == CallCalculateRatios

SpecRatios == InitRatios /\ [][NextRatios]_vars

----------------------------------------------------------------------------
(* Properties of calculate_ratios *)

NumeratorOf ==
    [CurrentRatio |-> "TotalCurrentAssets", DebtToEquityRatio |-> "TotalDebt",
     NetProfitMargin |-> "NetIncome"]
DenominatorOf ==
    [CurrentRatio |-> "TotalCurrentLiabilities", DebtToEquityRatio |-> "TotalEquity",
     NetProfitMargin |-> "Revenue"]
RatioNames == {"CurrentRatio", "DebtToEquityRatio", "NetProfitMargin"}

HasNaN(row) == \E c \in required_numeric_cols : row[c] = NaN

\* r is the number n / d, stated by cross-multiplication
IsQuotient(r, n, d) == r.k = "num" /\ r.q > 0 /\ r.p * d.v = r.q * n.v

Returned == rpc = "done" /\ Len(ratios_df) = Len(df)

\* C1: once calculate_ratios has returned, every input row with a NaN in any
\* of the six numeric fields has NaN in all three ratios of its output row.
C1_AnyNaNBlanksAllRatios ==
    rpc = "done" =>
        /\ Len(ratios_df) = Len(df)
        /\ \A i \in 1..Len(df) :
              HasNaN(df[i]) => \A R \in RatioNames : ratios_df[i][R] = RatioNaN

\* a returned row whose only NaN is TotalDebt, with CurrentRatio and
\* NetProfitMargin NaN although their own operands are numbers
C1_Witness ==
    /\ Returned
    /\ \E i \in 1..Len(df) :
          /\ df[i]["TotalDebt"] = NaN
          /\ \A c \in required_numeric_cols \ {"TotalDebt"} : df[i][c] = Num(1)
          /\ ratios_df[i]["CurrentRatio"] = RatioNaN
          /\ ratios_df[i]["NetProfitMargin"] = RatioNaN

\* C2: once calculate_ratios has returned, a ratio whose denominator is 0 is
\* NaN (not a division result, not an error), whatever the other fields are,
\* and the call returned a row for every input row.
C2_ZeroDenominatorIsNaN ==
    rpc = "done" =>
        /\ Len(ratios_df) = Len(df)
        /\ \A i \in 1..Len(df) : \A R \in RatioNames :
              df[i][DenominatorOf[R]] = Num(0) => ratios_df[i][R] = RatioNaN

\* a returned row with a non-zero numerator over a zero denominator and no
\* NaN anywhere, for each of the three ratios
C2_Witness ==
    /\ Returned
    /\ \A R \in RatioNames :
          \E i \in 1..Len(df) :
              /\ ~HasNaN(df[i])
              /\ df[i][DenominatorOf[R]] = Num(0)
              /\ df[i][NumeratorOf[R]] = Num(1)
              /\ ratios_df[i][R] = RatioNaN

\* C3: once calculate_ratios has returned, a row with no NaN and three
\* non-zero denominators has CurrentRatio = TotalCurrentAssets /
\* TotalCurrentLiabilities, DebtToEquityRatio = TotalDebt / TotalEquity and
\* NetProfitMargin = NetIncome / Revenue.
C3_RatiosAreOwnQuotients ==
    rpc = "done" =>
        /\ Len(ratios_df) = Len(df)
        /\ \A i \in 1..Len(df) :
              (/\ ~HasNaN(df[i])
               /\ \A R \in RatioNames : df[i][DenominatorOf[R]] # Num(0))
              => \A R \in RatioNames :
                    IsQuotient(ratios_df[i][R], df[i][NumeratorOf[R]],
                               df[i][DenominatorOf[R]])

\* a returned complete row whose three quotients are pairwise different and
\* differ from their inverses: 1/2, 2/1 and 0/1
C3_Witness ==
    /\ Returned
    /\ \E i \in 1..Len(df) :
          /\ df[i]["TotalCurrentAssets"] = Num(1)
          /\ df[i]["TotalCurrentLiabilities"] = Num(2)
          /\ df[i]["TotalDebt"] = Num(2)
          /\ df[i]["TotalEquity"] = Num(1)
          /\ df[i]["NetIncome"] = Num(0)
          /\ df[i]["Revenue"] = Num(1)
          /\ ratios_df[i]["CurrentRatio"] = [k |-> "num", p |-> 1, q |-> 2]
          /\ ratios_df[i]["DebtToEquityRatio"] = [k |-> "num", p |-> 2, q |-> 1]
          /\ ratios_df[i]["NetProfitMargin"] = [k |-> "num", p |-> 0, q |-> 1]

\* C4 as stated: each ratio follows from its own two operands alone: NaN if
\* one of them is NaN, NaN if its denominator is 0, their quotient otherwise.
C4_PerRatioPolicy ==
    rpc = "done" =>
        /\ Len(ratios_df) = Len(df)
        /\ \A i \in 1..Len(df) : \A R \in RatioNames :
              LET n == df[i][NumeratorOf[R]]
                  d == df[i][DenominatorOf[R]]
              IN  IF n = NaN \/ d = NaN THEN ratios_df[i][R] = RatioNaN
                  ELSE IF d = Num(0) THEN ratios_df[i][R] = RatioNaN
                  ELSE IsQuotient(ratios_df[i][R], n, d)

\* C4 amended: each ratio is NaN if any of the six numeric fields of the row
\* is NaN, NaN if its own denominator is 0, and the quotient of its own two
\* operands otherwise; among the rows without NaN a ratio does not depend on
\* the four operands of the other ratios (two such rows of one frame that
\* agree on a ratio's operands agree on the ratio).
C4_RowWideNaNThenOwnOperands ==
    rpc = "done" =>
        /\ Len(ratios_df) = Len(df)
        /\ \A i \in 1..Len(df) : \A R \in RatioNames :
              LET n == df[i][NumeratorOf[R]]
                  d == df[i][DenominatorOf[R]]
              IN  IF HasNaN(df[i]) THEN ratios_df[i][R] = RatioNaN
                  ELSE IF d = Num(0) THEN ratios_df[i][R] = RatioNaN
                  ELSE IsQuotient(ratios_df[i][R], n, d)
        /\ \A i, j \in 1..Len(df) : \A R \in RatioNames :
              (/\ ~HasNaN(df[i]) /\ ~HasNaN(df[j])
               /\ df[i][NumeratorOf[R]] = df[j][NumeratorOf[R]]
               /\ df[i][DenominatorOf[R]] = df[j][DenominatorOf[R]])
              => ratios_df[i][R] = ratios_df[j][R]

\* a returned frame of two rows without NaN that differ in an operand of
\* DebtToEquityRatio (zero in one of them) and have the same CurrentRatio, a
\* number
C4_Witness ==
    /\ Returned
    /\ \E i, j \in 1..Len(df) :
          /\ ~HasNaN(df[i]) /\ ~HasNaN(df[j])
          /\ df[i]["TotalEquity"] = Num(0)
          /\ df[j]["TotalEquity"] # Num(0)
          /\ ratios_df[i]["DebtToEquityRatio"] = RatioNaN
          /\ ratios_df[j]["DebtToEquityRatio"].k = "num"
          /\ ratios_df[i]["CurrentRatio"].k = "num"
          /\ ratios_df[i]["CurrentRatio"] = ratios_df[j]["CurrentRatio"]

\* C10: calculate_ratios returns one row per input row, in input order: the
\* i-th output row has the CompanyName, Ticker and Year of the i-th input row
\* and the ratios that the i-th input row gives when it is the only row.
C10_RowWiseMap ==
    rpc = "done" =>
        /\ Len(ratios_df) = Len(df)
        /\ \A i \in 1..Len(df) :
              /\ ratios_df[i]["CompanyName"] = df[i]["CompanyName"]
              /\ ratios_df[i]["Ticker"] = df[i]["Ticker"]
              /\ ratios_df[i]["Year"] = df[i]["Year"]
              /\ ratios_df[i] = calculate_ratios(<<df[i]>>)[1]

\* a returned frame whose first row has a NaN and whose second row, of
\* another company, is complete and has three numeric ratios
C10_Witness ==
    /\ Returned
    /\ Len(df) >= 2
    /\ HasNaN(df[1])
    /\ ratios_df[1]["CurrentRatio"] = RatioNaN
    /\ df[2]["Ticker"] # df[1]["Ticker"]
    /\ ~HasNaN(df[2])
    /\ \A R \in RatioNames : ratios_df[2][R].k = "num"

----------------------------------------------------------------------------
(* Properties of acquire_filings *)

\* the positions 1..n of ids whose element is not blank, in list order
NonBlankPositions(ids, n) ==
    SelectSeq([p \in 1..n |-> p], LAMBDA p : strip(ids[p]) # "")

AttemptedPositions == [i \in 1..Len(attempts) |-> attempts[i].pos]

IsFailure(o) == o.kind # "count"

\* C7: once the downloader is initialised no outcome of a download ends the
\* batch: the exception never leaves the loop, the attempts made so far are
\* exactly the non-blank list elements consumed so far, in list order, and
\* the function returns only after the whole list, with a boolean.
C7_FailureNeverAbortsBatch ==
    dl = "ready" =>
        /\ apc # "raised"
        /\ AttemptedPositions = NonBlankPositions(identifiers, idx)
        /\ apc = "returned" =>
              /\ idx = Len(identifiers)
              /\ AttemptedPositions = NonBlankPositions(identifiers, Len(identifiers))
              /\ acq_ret \in BOOLEAN

\* a returned run whose first attempt raised a plain exception, whose second
\* raised a network error and whose last one, after them, downloaded filings
C7_Witness ==
    /\ dl = "ready" /\ apc = "returned"
    /\ Len(attempts) = 3
    /\ attempts[1].outcome = Raises("Exception")
    /\ attempts[2].outcome = Raises("ConnectionError")
    /\ attempts[3].outcome = Count(NUM_RECENT_FILINGS)
    /\ failed_downloads = 2 /\ successful_downloads = 1

\* C8: within one run every list position is attempted at most once, later
\* attempts are at later positions, and every attempt that raised (HTTP 429
\* included) is counted once in failed_downloads and in nothing else.
C8_AtMostOneAttemptNoRetry ==
    /\ \A i, j \in 1..Len(attempts) :
          i < j => attempts[i].pos < attempts[j].pos
    /\ \A i \in 1..Len(attempts) : attempts[i].pos <= idx \/ apc = "raised"
    /\ apc # "raised" =>
          /\ failed_downloads =
                Cardinality({i \in 1..Len(attempts) : IsFailure(attempts[i].outcome)})
          /\ successful_downloads =
                Cardinality({i \in 1..Len(attempts) :
                                ~IsFailure(attempts[i].outcome)
                                /\ attempts[i].outcome.n > 0})

\* a returned run in which the same ticker is listed twice, its first
\* download hit HTTP 429 and its second, a separate list element, succeeded
C8_Witness ==
    /\ apc = "returned" /\ dl = "ready"
    /\ Len(attempts) = 2
    /\ attempts[1].identifier = attempts[2].identifier
    /\ attempts[1].outcome = Raises("HTTPError429")
    /\ attempts[2].outcome = Count(1)
    /\ failed_downloads = 1

\* C12: once the downloader is initialised, acquire_filings returns True
\* exactly when some identifier that was attempted did not end in a failure
\* (a download that found no filing is no failure); it returns False when
\* every attempted identifier failed and when none was attempted.
C12_TrueIffSomeAttemptDidNotFail ==
    (dl = "ready" /\ apc = "returned") =>
        (acq_ret = TRUE <=>
            \E i \in 1..Len(attempts) : ~IsFailure(attempts[i].outcome))

----------------------------------------------------------------------------
(* Properties of analyze_financial_data *)

InLog(stage, log) == \E i \in 1..Len(log) : log[i] = stage

\* the input file loads into a table with at least one row that lacks a
\* required column
LacksRequiredColumn(file) ==
    /\ file.exists /\ file.fault = "none" /\ file.lines # <<>>
    /\ \E c \in REQUIRED_COLUMNS : c \notin file.columns

\* C5: a call of analyze_financial_data on a non-empty table that lacks a
\* required column returns False without normalising a row or calling
\* calculate_ratios, and leaves the output file exactly as it was (absent if
\* it was absent).
C5_MissingColumnFailsBeforeRows ==
    [][ (ana_pc = "ready" /\ ana_pc' = "returned" /\ LacksRequiredColumn(input_csv))
        => /\ ana_ret' = FALSE
           /\ output_csv' = output_csv
           /\ ~InLog("normalize", ana_log')
           /\ ~InLog("calculate_ratios", ana_log')
           /\ ~InLog("to_csv", ana_log')
           /\ df' = <<>> /\ ratios_df' = <<>> ]_vars

\* a second call, on a table without the Revenue column, has returned False
\* and the output file still holds the row written by the first call
C5_Witness ==
    /\ ana_pc = "returned" /\ runs = 2
    /\ LacksRequiredColumn(input_csv)
    /\ "Revenue" \notin input_csv.columns
    /\ ana_ret = FALSE
    /\ output_csv.exists /\ output_csv.headers = 1
    /\ Len(output_csv.rows) = 1
    /\ output_csv.rows[1].written_by = 1

\* the output field f is what the ratio n / d of one input line must give:
\* empty unless every numeric field of the line is a number and d is not 0,
\* then n / d in ten-thousandths, rounded
IsFormattedRatio(f, line, n, d) ==
    IF \A c \in required_numeric_cols : line[c].k = "digits"
    THEN IF line[d].v = 0
         THEN f.k = "empty"
         ELSE /\ f.k = "fix4"
              /\ 2 * (f.v * line[d].v - 10000 * line[n].v) <= line[d].v
              /\ 2 * (10000 * line[n].v - f.v * line[d].v) <= line[d].v
    ELSE f.k = "empty"

\* the output file holds one header and the ratio rows of input file `file`,
\* all of them written by call `run`
HoldsExactly(out, file, run) ==
    /\ out.exists
    /\ out.headers = 1
    /\ Len(out.rows) = Len(file.lines)
    /\ \A i \in 1..Len(out.rows) :
          /\ out.rows[i].written_by = run
          /\ out.rows[i].CompanyName = file.lines[i].CompanyName
          /\ out.rows[i].Ticker = file.lines[i].Ticker
          /\ out.rows[i].Year = file.lines[i].Year
          /\ IsFormattedRatio(out.rows[i].CurrentRatio, file.lines[i],
                              "TotalCurrentAssets", "TotalCurrentLiabilities")
          /\ IsFormattedRatio(out.rows[i].DebtToEquityRatio, file.lines[i],
                              "TotalDebt", "TotalEquity")
          /\ IsFormattedRatio(out.rows[i].NetProfitMargin, file.lines[i],
                              "NetIncome", "Revenue")

\* C9 as stated: after any call of analyze_financial_data that returned
\* success the output file holds exactly one header and the ratio rows of
\* that call's input, none of them from an earlier call.
C9_OverwrittenAfterEverySuccess ==
    (ana_pc = "returned" /\ ana_ret = TRUE)
        => HoldsExactly(output_csv, input_csv, runs)

\* C9 amended: after any call of analyze_financial_data that returned success
\* on an input table with at least one row, the output file holds exactly
\* one header and the ratio rows of that call's input, none of them from an
\* earlier call.
C9_OverwrittenAfterSuccessOnRows ==
    (ana_pc = "returned" /\ ana_ret = TRUE /\ input_csv.lines # <<>>)
        => HoldsExactly(output_csv, input_csv, runs)

\* a second call has returned success on a one-line table and the output
\* file holds one header and that one row, written by the second call
C9_Witness ==
    /\ ana_pc = "returned" /\ runs = 2 /\ ana_ret = TRUE
    /\ Len(input_csv.lines) = 1
    /\ output_csv.headers = 1
    /\ Len(output_csv.rows) = 1
    /\ output_csv.rows[1].written_by = 2
    /\ output_csv.rows[1].CurrentRatio.k = "fix4"

\* C11: when analyze_financial_data calls calculate_ratios, the frame it
\* passes has one row per input line and every cell of the six numeric
\* columns is a number or NaN: a field "-", an empty field and any other
\* text that is no number are NaN, and a field that is a number is that
\* number, whatever else its column holds.
C11_NormalizedBeforeRatios ==
    (ana_pc = "returned" /\ InLog("calculate_ratios", ana_log)) =>
        /\ Len(df) = Len(input_csv.lines)
        /\ \A i \in 1..Len(df) : \A c \in required_numeric_cols :
              LET f == input_csv.lines[i][c]
              IN  /\ df[i][c].k \in {"num", "nan"}
                  /\ f.k \in {"dash", "blank", "text"} => df[i][c] = NaN
                  /\ f.k = "digits" => df[i][c] = Num(f.v)

\* calculate_ratios was called on a two-line table whose TotalDebt, NetIncome
\* and TotalEquity columns hold a number in one line and "-", text and
\* nothing in the other: the frame has the numbers and three NaN
C11_Witness ==
    /\ ana_pc = "returned" /\ InLog("calculate_ratios", ana_log)
    /\ Len(df) = 2
    /\ \E i, j \in 1..2 :
          /\ input_csv.lines[i]["TotalDebt"] = Dash
          /\ input_csv.lines[i]["NetIncome"] = Text
          /\ input_csv.lines[i]["TotalEquity"] = Blank
          /\ df[i]["TotalDebt"] = NaN /\ df[i]["NetIncome"] = NaN
          /\ df[i]["TotalEquity"] = NaN
          /\ input_csv.lines[j]["TotalDebt"].k = "digits"
          /\ df[j]["TotalDebt"] = Num(input_csv.lines[j]["TotalDebt"].v)
          /\ df[j]["NetIncome"] = Num(input_csv.lines[j]["NetIncome"].v)

----------------------------------------------------------------------------
(* main *)

\* line 355: [line.strip() for line in f if line.strip()]
RECURSIVE stripped_lines(_)
stripped_lines(lines) ==
    IF lines = <<>> THEN <<>>
    ELSE IF strip(Head(lines)) # ""
         THEN <<strip(Head(lines))>> \o stripped_lines(Tail(lines))
         ELSE stripped_lines(Tail(lines))

\* lines 377-379: --skip-acquisition
MainSkipAcquisition ==
    /\ pc = "acquisition"
    /\ args.skip_acquisition
    /\ pc' = "analysis"
    /\ UNCHANGED <<ratio_vars, acq_vars, ana_vars, args, idfile,
                   acquisition_success, analysis_success, exit_code>>

\* lines 349-352, 356-359 and 374-376: no identifiers file, no identifier in
\* it, or an exception while it is opened and read
MainNoIdentifiers ==
    /\ pc = "acquisition"
    /\ ~args.skip_acquisition
    /\ \/ idfile.state = "missing"
       \/ idfile.state = "unreadable"
       \/ idfile.state = "ok" /\ stripped_lines(idfile.lines) = <<>>
    /\ acquisition_success' = FALSE
    /\ pc' = "analysis"
    /\ UNCHANGED <<ratio_vars, acq_vars, ana_vars, args, idfile,
                   analysis_success, exit_code>>

\* lines 361-368: the call of acquire_filings
MainCallAcquire ==
    /\ pc = "acquisition"
    /\ ~args.skip_acquisition
    /\ idfile.state = "ok"
    /\ stripped_lines(idfile.lines) # <<>>
    /\ identifiers' = stripped_lines(idfile.lines)
    /\ user_agent' = USER_AGENT
    /\ apc' = "start"
    /\ pc' = "acquiring"
    /\ UNCHANGED <<ratio_vars, ana_vars, args, idfile, acquisition_success,
                   analysis_success, exit_code, dl, idx, successful_downloads,
                   failed_downloads, total_files_downloaded, attempts, acq_ret>>

\* lines 361 and 374-376: acquire_filings has returned, or an exception
\* came out of it
MainAcquireReturned ==
    /\ pc = "acquiring"
    /\ apc \in {"returned", "raised"}
    /\ acquisition_success' = IF apc = "returned" THEN acq_ret ELSE FALSE
    /\ pc' = "analysis"
    /\ UNCHANGED <<ratio_vars, acq_vars, ana_vars, args, idfile,
                   analysis_success, exit_code>>

\* lines 407-409: --skip-analysis
MainSkipAnalysis ==
    /\ pc = "analysis"
    /\ args.skip_analysis
    /\ pc' = "exit"
    /\ UNCHANGED <<ratio_vars, acq_vars, ana_vars, args, idfile,
                   acquisition_success, analysis_success, exit_code>>

\* lines 402-406 and 391-394: acquisition was run and failed, or there is no
\* input CSV
MainNoAnalysis ==
    /\ pc = "analysis"
    /\ ~args.skip_analysis
    /\ \/ ~(acquisition_success \/ args.skip_acquisition)
       \/ (acquisition_success \/ args.skip_acquisition) /\ ~input_csv.exists
    /\ analysis_success' = FALSE
    /\ pc' = "exit"
    /\ UNCHANGED <<ratio_vars, acq_vars, ana_vars, args, idfile,
                   acquisition_success, exit_code>>

\* a faulty variant of MainCallAnalyze: the test of line 388 is missing, the
\* analysis is called whatever the acquisition phase reported
MainCallAnalyze_whatever_acquisition ==
    /\ pc = "analysis"
    /\ ~args.skip_analysis
    /\ input_csv.exists
    /\ \E write \in WriteOutcomes :
          LET res == analyze_financial_data(input_csv, output_csv, write, runs + 1)
          IN  /\ analysis_success' = res.ret
              /\ ana_ret' = res.ret
              /\ output_csv' = res.out
              /\ ana_log' = res.log
              /\ df' = res.df
              /\ ratios_df' = res.ratios
    /\ runs' = runs + 1
    /\ ana_pc' = "returned"
    /\ pc' = "exit"
    /\ UNCHANGED <<rpc, acq_vars, input_csv, args, idfile,
                   acquisition_success, exit_code>>

\* lines 395-401: the call of analyze_financial_data
MainCallAnalyze ==
    /\ pc = "analysis"
    /\ ~args.skip_analysis
    /\ acquisition_success \/ args.skip_acquisition
    /\ input_csv.exists
    /\ \E write \in WriteOutcomes :
          LET res == analyze_financial_data(input_csv, output_csv, write, runs + 1)
          IN  /\ analysis_success' = res.ret
              /\ ana_ret' = res.ret
              /\ output_csv' = res.out
              /\ ana_log' = res.log
              /\ df' = res.df
              /\ ratios_df' = res.ratios
    /\ runs' = runs + 1
    /\ ana_pc' = "returned"
    /\ pc' = "exit"
    /\ UNCHANGED <<rpc, acq_vars, input_csv, args, idfile,
                   acquisition_success, exit_code>>

\* lines 414-422
MainExit ==
    /\ pc = "exit"
    /\ LET acquisition_phase_failed ==
               ~args.skip_acquisition /\ ~acquisition_success
           analysis_phase_failed ==
               ~args.skip_analysis /\ ~analysis_success
       IN  exit_code' = IF acquisition_phase_failed \/ analysis_phase_failed
                        THEN 1 ELSE 0
    /\ pc' = "exited"
    /\ UNCHANGED <<ratio_vars, acq_vars, ana_vars, args, idfile,
                   acquisition_success, analysis_success>>

\* tickers.txt: absent, unreadable, empty, blank lines only, one ticker,
\* two tickers around a blank line
IdFiles ==
    {NoIdFile, [state |-> "unreadable", lines |-> <<>>]}
    \cup {[state |-> "ok", lines |-> l] :
            l \in {<<>>, <<" ">>, <<"AAPL">>, <<"AAPL", " ", " MSFT">>}}

\* input_financials.csv: absent, unparseable, complete with and without a
\* line, and without the Revenue column with and without a line
MainInputFiles ==
    {NoFile, BadFile("ParserError"),
     CsvFile(REQUIRED_COLUMNS, <<>>),
     CsvFile(REQUIRED_COLUMNS, <<CsvLine(Apple, BaseFields)>>),
     CsvFile(REQUIRED_COLUMNS \ {"Revenue"}, <<>>),
     CsvFile(REQUIRED_COLUMNS \ {"Revenue"},
             <<Restrict(CsvLine(Apple, BaseFields), REQUIRED_COLUMNS \ {"Revenue"})>>)}

\* lines 337-344: the arguments are parsed; the files are what they are
InitMain ==
    /\ df = <<>> /\ ratios_df = <<>> /\ rpc = "idle"
    /\ AcqIdle
    /\ input_csv \in MainInputFiles
    /\ output_csv = NoOutput
    /\ runs = 0
    /\ ana_ret = "none"
    /\ ana_log = <<>>
    /\ ana_pc = "idle"
    /\ args \in [skip_acquisition : BOOLEAN, skip_analysis : BOOLEAN]
    /\ idfile \in IdFiles
    /\ acquisition_success = TRUE
    /\ analysis_success = TRUE
    /\ exit_code = -1
    /\ pc = "acquisition"

NextMain ==
    \/ MainSkipAcquisition \/ MainNoIdentifiers \/ MainCallAcquire
    \/ AcqInitDownloader \/ AcqIterate \/ AcqReturn
    \/ MainAcquireReturned
    \/ MainSkipAnalysis \/ MainNoAnalysis \/ MainCallAnalyze
    \/ MainExit

SpecMain == InitMain /\ [][NextMain]_vars

----------------------------------------------------------------------------
(* Properties of main *)

\* the acquisition phase was run and ended in a whole-run failure
AcquisitionFailure ==
    /\ ~args.skip_acquisition
    /\ \/ idfile.state # "ok"
       \/ \A i \in 1..Len(idfile.lines) : strip(idfile.lines[i]) = ""
       \/ acq_ret = FALSE
       \/ apc = "raised"

\* the analysis phase was run and ended in a whole-run failure
AnalysisFailure ==
    /\ ~args.skip_analysis
    /\ \/ ~input_csv.exists
       \/ input_csv.fault # "none"
       \/ \E c \in REQUIRED_COLUMNS : c \notin input_csv.columns
       \/ InLog("to_csv refused", ana_log)
       \/ InLog("to_csv broken", ana_log)

\* C6: main exits with 1 when a phase that was not skipped ended in a
\* whole-run failure (identifiers file missing, unreadable or empty,
\* acquisition reporting failure, input CSV missing or unreadable, required
\* columns missing, output write failure) and with 0 in every other
\* execution; a skipped phase never makes the exit code 1.
C6_ExitCodeReflectsFailures ==
    pc = "exited" =>
        /\ exit_code \in {0, 1}
        /\ exit_code = 1 <=> (AcquisitionFailure \/ AnalysisFailure)

\* analyze_financial_data has been called in this execution of main
AnalysisStarted == runs > 0 \/ ana_pc # "idle"

\* C13: in every execution of main the analysis is not started while the
\* acquisition phase is still to run or running, and when it has been
\* started then --skip-analysis is absent, the input CSV exists, and the
\* acquisition was either skipped (acquire_filings never ran) or has
\* returned True.
C13_AnalysisOnlyAfterGoodAcquisition ==
    /\ (pc \in {"acquisition", "acquiring"} \/ apc \in {"start", "loop"})
          => ~AnalysisStarted
    /\ AnalysisStarted =>
          /\ pc \in {"exit", "exited"}
          /\ ~args.skip_analysis
          /\ input_csv.exists
          /\ IF args.skip_acquisition
             THEN apc = "idle" /\ attempts = <<>>
             ELSE apc = "returned" /\ acq_ret = TRUE

\* main has exited after an acquisition that returned True although one of
\* its two downloads failed, followed by an analysis that wrote the ratios
C13_Witness ==
    /\ pc = "exited"
    /\ ~args.skip_acquisition /\ ~args.skip_analysis
    /\ apc = "returned" /\ acq_ret = TRUE
    /\ Len(attempts) = 2
    /\ IsFailure(attempts[1].outcome)
    /\ runs = 1 /\ ana_ret = TRUE
    /\ output_csv.exists /\ Len(output_csv.rows) = 1
    /\ exit_code = 0

====
